---- MODULE Spec2Model ----
(***************************************************************************)
(* Model of graphql-query-match (src/src/index.ts): doesQueryMatch decides *)
(* whether a matcher query's shape is reachable in a query to check.       *)
(*                                                                         *)
(* A selection node is a record with a kind ("Field" or "FragmentSpread"). *)
(* A field's optional selectionSet is <<>> when the field has none and     *)
(* <<selections>> when it has one; an absent alias is the empty string.    *)
(* An execution result value is a tagged record: "true", "array" (with     *)
(* items), "object" (with keys and get) or "throw".                        *)
(***************************************************************************)
EXTENDS Integers, Sequences, FiniteSets, TLC

VARIABLES matcher, queryToCheck, pc, topLevelOperation, fragmentDefs,
          resolved, returned, call

vars == <<matcher, queryToCheck, pc, topLevelOperation, fragmentDefs,
          resolved, returned, call>>

RECURSIVE getFragmentFieldSelections(_, _, _)
RECURSIVE fragmentForEach(_, _, _, _, _)
RECURSIVE spreadsLoop(_, _, _, _, _)
RECURSIVE merge(_, _)
RECURSIVE mergeKeys(_, _, _)
RECURSIVE executeSelectionSet(_, _, _)
RECURSIVE selectionsForEach(_, _, _, _, _)
RECURSIVE executeSubSelectedArray(_, _, _, _, _)
RECURSIVE hasOnlyDeepEmptyArrays(_)

NoAlias == ""

Field(name, alias, selectionSet) ==
    [kind |-> "Field", name |-> name, alias |-> alias, selectionSet |-> selectionSet]

FragmentSpread(name) == [kind |-> "FragmentSpread", name |-> name]

OperationDefinition(selections) ==
    [kind |-> "OperationDefinition", selectionSet |-> <<selections>>]

FragmentDefinition(name, selections) ==
    [kind |-> "FragmentDefinition", name |-> name, selectionSet |-> <<selections>>]

\* values of an ExecutionResult
True == [t |-> "true"]
Array(items) == [t |-> "array", items |-> items]
Object(keys, get) == [t |-> "object", keys |-> keys, get |-> get]
Throw(msg) == [t |-> "throw", msg |-> msg]
EmptyObject == Object({}, <<>>)


isOperationDefinitionNode(node) == node.kind = "OperationDefinition"

isFragmentSpreadNode(node) == node.kind = "FragmentSpread"

isRightSelectionNode(selection, fieldName) ==
    selection.kind = "Field" /\ selection.name = fieldName

\* graphql-anywhere: the key a matcher field's result is stored under
resultKeyNameFromField(field) ==
    IF field.alias # NoAlias THEN field.alias ELSE field.name

(***************************************************************************)
(* getFragmentFieldSelections: the fields named fieldName that the         *)
(* fragment declares, nested spreads expanded in place; throws on a        *)
(* fragment that the map lacks.                                            *)
(***************************************************************************)
\* a walk that passes over the spreads inside a fragment
fragmentForEachFlat(selections, i, fragments, fieldName, resultFields) ==
    IF i > Len(selections) THEN Array(resultFields)
    ELSE fragmentForEach(selections, i + 1, fragments, fieldName,
             IF selections[i].kind = "Field" /\ selections[i].name = fieldName
             THEN Append(resultFields, selections[i]) ELSE resultFields)

fragmentForEach(selections, i, fragments, fieldName, resultFields) ==
    IF i > Len(selections) THEN Array(resultFields)
    ELSE LET selection == selections[i] IN
         IF selection.kind = "Field"
         THEN fragmentForEach(selections, i + 1, fragments, fieldName,
                  IF selection.name = fieldName
                  THEN Append(resultFields, selection) ELSE resultFields)
         ELSE IF selection.kind = "FragmentSpread"
         THEN LET inner == getFragmentFieldSelections(selection.name, fragments, fieldName) IN
              IF inner.t = "throw" THEN inner
              ELSE fragmentForEach(selections, i + 1, fragments, fieldName,
                                   resultFields \o inner.items)
         ELSE fragmentForEach(selections, i + 1, fragments, fieldName, resultFields)

\* a fragment that the map lacks gives no fields, without an error
getFragmentFieldSelectionsSilent(fragmentName, fragments, fieldName) ==
    IF fragmentName \in DOMAIN fragments
    THEN fragmentForEach(fragments[fragmentName].selectionSet[1], 1,
                         fragments, fieldName, <<>>)
    ELSE Array(<<>>)

getFragmentFieldSelections(fragmentName, fragments, fieldName) ==
    IF fragmentName \in DOMAIN fragments
    THEN fragmentForEach(fragments[fragmentName].selectionSet[1], 1,
                         fragments, fieldName, <<>>)
    ELSE Throw("Referenced non-existent fragment")

\* for (const spread of fragmentSpreads) selections.push(...)
spreadsLoop(fragmentSpreads, i, fragments, fieldName, selections) ==
    IF i > Len(fragmentSpreads) THEN Array(selections)
    ELSE LET inner == getFragmentFieldSelections(fragmentSpreads[i].name, fragments, fieldName) IN
         IF inner.t = "throw" THEN inner
         ELSE spreadsLoop(fragmentSpreads, i + 1, fragments, fieldName,
                          selections \o inner.items)

\* find in place of filter: the first field of the name only
selectionsOfFirst(rootValue, fragments, fieldName) ==
    LET all == rootValue.selectionSet[1]
        IsRight(s) == isRightSelectionNode(s, fieldName)
        right == SelectSeq(all, IsRight)
    IN  spreadsLoop(SelectSeq(all, isFragmentSpreadNode), 1, fragments, fieldName,
                    IF right = <<>> THEN <<>> ELSE <<right[1]>>)

\* the selections of rootValue that the resolver looks through
selectionsOf(rootValue, fragments, fieldName) ==
    LET all == rootValue.selectionSet[1]
        IsRight(s) == isRightSelectionNode(s, fieldName)
    IN  spreadsLoop(SelectSeq(all, isFragmentSpreadNode), 1, fragments, fieldName,
                    SelectSeq(all, IsRight))

(***************************************************************************)
(* The resolver handed to graphql-anywhere: the result for one matcher     *)
(* field against one node of the query to check.                           *)
(***************************************************************************)
resolver(fieldName, rootValue, isLeaf, fragments) ==
    IF rootValue.kind = "OperationDefinition"
    THEN LET selections == selectionsOf(rootValue, fragments, fieldName) IN
         IF selections.t = "throw" THEN selections
         ELSE IF isLeaf /\ Len(selections.items) > 0 THEN True
         ELSE selections
    ELSE IF rootValue.kind = "Field"
    THEN IF rootValue.selectionSet # <<>>
         THEN LET rightSelectionNodes == selectionsOf(rootValue, fragments, fieldName) IN
              IF rightSelectionNodes.t = "throw" THEN rightSelectionNodes
              ELSE IF isLeaf /\ Len(rightSelectionNodes.items) > 0 THEN True
              ELSE rightSelectionNodes
         ELSE Array(<<>>)
    ELSE Throw("Didn't expect to get this far")

(***************************************************************************)
(* graphql-anywhere's executor, as doesQueryMatch uses it: the matcher's   *)
(* selection set executed against a node, a field's result stored under    *)
(* its result key, results under one key merged.                           *)
(***************************************************************************)
mergeKeys(dest, src, keys) ==
    IF keys = {} THEN dest
    ELSE LET key == IF src.t = "array"
                    THEN CHOOSE k \in keys : \A j \in keys : k <= j
                    ELSE CHOOSE k \in keys : TRUE
             rest == keys \ {key}
         IN
         IF dest.t = "true" THEN Throw("Cannot create property on boolean")
         ELSE IF dest.t = "array"
         THEN IF key > Len(dest.items)
              THEN mergeKeys(Array(Append(dest.items, src.items[key])), src, rest)
              ELSE LET sub == merge(dest.items[key], src.items[key]) IN
                   IF sub.t = "throw" THEN sub
                   ELSE mergeKeys(Array([dest.items EXCEPT ![key] = sub]), src, rest)
         ELSE IF key \notin dest.keys
              THEN mergeKeys(Object(dest.keys \cup {key},
                                 [k \in dest.keys \cup {key} |->
                                     IF k = key THEN src.get[key] ELSE dest.get[k]]),
                             src, rest)
              ELSE LET sub == merge(dest.get[key], src.get[key]) IN
                   IF sub.t = "throw" THEN sub
                   ELSE mergeKeys(Object(dest.keys, [dest.get EXCEPT ![key] = sub]),
                                  src, rest)

merge(dest, src) ==
    IF src.t = "array" THEN mergeKeys(dest, src, 1..Len(src.items))
    ELSE IF src.t = "object" THEN mergeKeys(dest, src, src.keys)
    ELSE dest

executeSubSelectedArray(field, result, i, fragments, out) ==
    IF i > Len(result) THEN Array(out)
    ELSE LET item == executeSelectionSet(field.selectionSet[1], result[i], fragments) IN
         IF item.t = "throw" THEN item
         ELSE executeSubSelectedArray(field, result, i + 1, fragments, Append(out, item))

executeField(field, rootValue, fragments) ==
    LET result == resolver(field.name, rootValue, field.selectionSet = <<>>, fragments) IN
    IF result.t = "throw" THEN result
    ELSE IF field.selectionSet = <<>> THEN result
    ELSE executeSubSelectedArray(field, result.items, 1, fragments, <<>>)

selectionsForEach(selections, i, rootValue, fragments, result) ==
    IF i > Len(selections) THEN result
    ELSE LET fieldResult == executeField(selections[i], rootValue, fragments)
             resultFieldKey == resultKeyNameFromField(selections[i])
         IN
         IF fieldResult.t = "throw" THEN fieldResult
         ELSE IF resultFieldKey \notin result.keys
         THEN selectionsForEach(selections, i + 1, rootValue, fragments,
                  Object(result.keys \cup {resultFieldKey},
                         [k \in result.keys \cup {resultFieldKey} |->
                             IF k = resultFieldKey THEN fieldResult ELSE result.get[k]]))
         ELSE LET merged == merge(result.get[resultFieldKey], fieldResult) IN
              IF merged.t = "throw" THEN merged
              ELSE selectionsForEach(selections, i + 1, rootValue, fragments,
                       Object(result.keys, [result.get EXCEPT ![resultFieldKey] = merged]))

executeSelectionSet(selections, rootValue, fragments) ==
    selectionsForEach(selections, 1, rootValue, fragments, EmptyObject)

\* const resolve = node => graphql(resolver, matcher, node)
resolve(matcherSelections, node, fragments) ==
    executeSelectionSet(matcherSelections, node, fragments)

(***************************************************************************)
(* hasOnlyDeepEmptyArrays: some key of the result is an array all of whose *)
(* items have only deep empty arrays (an empty array among them).          *)
(***************************************************************************)
\* an empty array does not count
hasOnlyDeepEmptyArraysButEmpty(result) ==
    \E key \in result.keys :
        LET resultForKey == result.get[key] IN
        /\ resultForKey.t # "true"
        /\ Len(resultForKey.items) > 0
        /\ \A i \in 1..Len(resultForKey.items) :
               hasOnlyDeepEmptyArrays(resultForKey.items[i])

\* one item with only deep empty arrays is enough
hasSomeDeepEmptyArrays(result) ==
    \E key \in result.keys :
        LET resultForKey == result.get[key] IN
        /\ resultForKey.t # "true"
        /\ \/ Len(resultForKey.items) = 0
           \/ \E i \in 1..Len(resultForKey.items) :
                  hasOnlyDeepEmptyArrays(resultForKey.items[i])

hasOnlyDeepEmptyArrays(result) ==
    \E key \in result.keys :
        LET resultForKey == result.get[key] IN
        /\ resultForKey.t # "true"
        /\ \A i \in 1..Len(resultForKey.items) :
               hasOnlyDeepEmptyArrays(resultForKey.items[i])

(***************************************************************************)
(* doesQueryMatch, lines 32-57: the two forms of the query to check are    *)
(* brought to a top-level operation (an operation definition, or the field *)
(* nodes of an ApolloInfo) and a fragment map.                             *)
(***************************************************************************)
RECURSIVE find(_, _)
\* the last operation definition in place of the first
findLast(definitions, i) ==
    LET operations == SelectSeq(definitions, isOperationDefinitionNode) IN
    IF operations = <<>> THEN <<>> ELSE <<operations[Len(operations)]>>

find(definitions, i) ==
    IF i > Len(definitions) THEN <<>>
    ELSE IF isOperationDefinitionNode(definitions[i]) THEN <<definitions[i]>>
    ELSE find(definitions, i + 1)

RECURSIVE collectFragmentDefs(_, _, _)
collectFragmentDefs(definitions, i, defs) ==
    IF i > Len(definitions) THEN defs
    ELSE LET def == definitions[i] IN
         IF def.kind = "FragmentDefinition"
         THEN collectFragmentDefs(definitions, i + 1,
                  [n \in DOMAIN defs \cup {def.name} |->
                      IF n = def.name THEN def ELSE defs[n]])
         ELSE collectFragmentDefs(definitions, i + 1, defs)

normalize(q) ==
    IF q.kind = "undefined"
    THEN IF q.fieldNodes = <<>>
         THEN Throw("No query found!")
         ELSE [t |-> "ok", isArray |-> TRUE, nodes |-> q.fieldNodes[1],
               fragmentDefs |-> q.fragments]
    ELSE LET opDefinition == find(q.definitions, 1) IN
         IF opDefinition = <<>>
         THEN Throw("No query found!")
         ELSE [t |-> "ok", isArray |-> FALSE, nodes |-> opDefinition,
               fragmentDefs |-> collectFragmentDefs(q.definitions, 1, <<>>)]

Boolean(b) == [t |-> "boolean", value |-> b]
None == [t |-> "none"]

\* every in place of some
every(results) ==
    \A i \in 1..Len(results) : ~hasOnlyDeepEmptyArrays(results[i])

\* the results of the resolved nodes decide the answer
some(results) ==
    \E i \in 1..Len(results) : ~hasOnlyDeepEmptyArrays(results[i])

RECURSIVE map(_, _, _, _, _)
map(nodes, i, matcherSelections, fragments, out) ==
    IF i > Len(nodes) THEN Array(out)
    ELSE LET res == resolve(matcherSelections, nodes[i], fragments) IN
         IF res.t = "throw" THEN res
         ELSE map(nodes, i + 1, matcherSelections, fragments, Append(out, res))

\* the whole call as a function of its arguments
doesQueryMatch(matcherSelections, q) ==
    LET n == normalize(q) IN
    IF n.t = "throw" THEN n
    ELSE LET results == map(n.nodes, 1, matcherSelections, n.fragmentDefs, <<>>) IN
         IF results.t = "throw" THEN results
         ELSE Boolean(some(results.items))

(***************************************************************************)
(* The call as a state machine: normalise, resolve each top-level node in  *)
(* order, then evaluate the results.                                       *)
(***************************************************************************)
Normalize ==
    /\ pc = "start"
    /\ LET n == normalize(queryToCheck) IN
       IF n.t = "throw"
       THEN /\ pc' = "thrown"
            /\ returned' = n
            /\ UNCHANGED <<topLevelOperation, fragmentDefs>>
       ELSE /\ pc' = "resolve"
            /\ topLevelOperation' = [isArray |-> n.isArray, nodes |-> n.nodes]
            /\ fragmentDefs' = n.fragmentDefs
            /\ UNCHANGED returned
    /\ UNCHANGED <<matcher, queryToCheck, resolved, call>>

Resolve ==
    /\ pc = "resolve"
    /\ Len(resolved) < Len(topLevelOperation.nodes)
    /\ LET res == resolve(matcher, topLevelOperation.nodes[Len(resolved) + 1],
                          fragmentDefs) IN
       IF res.t = "throw"
       THEN /\ pc' = "thrown"
            /\ returned' = res
            /\ UNCHANGED resolved
       ELSE /\ resolved' = Append(resolved, res)
            /\ UNCHANGED <<pc, returned>>
    /\ UNCHANGED <<matcher, queryToCheck, topLevelOperation, fragmentDefs, call>>

Evaluate ==
    /\ pc = "resolve"
    /\ Len(resolved) = Len(topLevelOperation.nodes)
    /\ pc' = "done"
    /\ returned' = Boolean(some(resolved))
    /\ UNCHANGED <<matcher, queryToCheck, topLevelOperation, fragmentDefs, resolved, call>>

Next == Normalize \/ Resolve \/ Evaluate

(***************************************************************************)
(* getFragmentFieldSelections step by step: call.frames is the stack of    *)
(* its running calls, each with the fragment it walks, the place in the    *)
(* fragment's selections and the fields found so far.                      *)
(***************************************************************************)
MaxStack == 4

NoCall == [fragments |-> <<>>, fragmentName |-> "", fieldName |-> "",
           frames |-> <<>>, result |-> None]

Frame(fragmentName) == [fragmentName |-> fragmentName, i |-> 1, resultFields |-> <<>>]

Top == call.frames[Len(call.frames)]
TopSelections == call.fragments[Top.fragmentName].selectionSet[1]

\* a call is entered: the first one, or the one for the spread the walk is at
Call ==
    /\ pc = "resolution"
    /\ call.result = None
    /\ Len(call.frames) < MaxStack
    /\ \/ call.frames = <<>>
       \/ /\ call.frames # <<>>
          /\ Top.i <= Len(TopSelections)
          /\ TopSelections[Top.i].kind = "FragmentSpread"
    /\ LET fragmentName == IF call.frames = <<>> THEN call.fragmentName
                           ELSE TopSelections[Top.i].name IN
       IF fragmentName \in DOMAIN call.fragments
       THEN call' = [call EXCEPT !.frames = Append(@, Frame(fragmentName))]
       ELSE call' = [call EXCEPT !.frames = <<>>,
                                 !.result = Throw("Referenced non-existent fragment")]
    /\ UNCHANGED <<matcher, queryToCheck, pc, topLevelOperation, fragmentDefs,
                   resolved, returned>>

\* the walk passes a field, and keeps it if it has the name looked for
Visit ==
    /\ pc = "resolution"
    /\ call.frames # <<>>
    /\ Top.i <= Len(TopSelections)
    /\ TopSelections[Top.i].kind = "Field"
    /\ call' = [call EXCEPT
           !.frames[Len(call.frames)] =
               [@ EXCEPT !.i = @ + 1,
                         !.resultFields =
                             IF TopSelections[Top.i].name = call.fieldName
                             THEN Append(@, TopSelections[Top.i]) ELSE @]]
    /\ UNCHANGED <<matcher, queryToCheck, pc, topLevelOperation, fragmentDefs,
                   resolved, returned>>

\* the walk is over: the call returns its fields, to the call that made it
\* or as the result
Return ==
    /\ pc = "resolution"
    /\ call.frames # <<>>
    /\ Top.i > Len(TopSelections)
    /\ IF Len(call.frames) = 1
       THEN call' = [call EXCEPT !.frames = <<>>, !.result = Array(Top.resultFields)]
       ELSE call' = [call EXCEPT
                !.frames = [SubSeq(@, 1, Len(@) - 1) EXCEPT
                               ![Len(call.frames) - 1] =
                                   [@ EXCEPT !.i = @ + 1,
                                             !.resultFields = @ \o Top.resultFields]]]
    /\ UNCHANGED <<matcher, queryToCheck, pc, topLevelOperation, fragmentDefs,
                   resolved, returned>>

NextResolution == Call \/ Visit \/ Return

(***************************************************************************)
(* The inputs: every selection set over a few names, up to a number of     *)
(* nodes and a depth.                                                      *)
(***************************************************************************)
MaxMatcherNodes == 3
MaxQueryNodes == 4
MaxDefinitions == 3

Names == {"a", "b"}
FragmentNames == {"F", "G"}

RECURSIVE Size(_)
Size(selections) ==
    IF selections = <<>> THEN 0
    ELSE LET head == selections[1] IN
         1 + (IF head.kind = "Field" /\ head.selectionSet # <<>>
              THEN Size(head.selectionSet[1]) ELSE 0)
           + Size(Tail(selections))

\* all spreads named anywhere in a selection set
RECURSIVE SpreadNames(_)
SpreadNames(selections) ==
    IF selections = <<>> THEN {}
    ELSE LET head == selections[1] IN
         (IF head.kind = "FragmentSpread" THEN {head.name}
          ELSE IF head.selectionSet # <<>> THEN SpreadNames(head.selectionSet[1])
          ELSE {})
         \cup SpreadNames(Tail(selections))

\* the selection sets of at most n nodes: fields labelled from labels, to any
\* depth, and spreads of the fragments named in spreads
RECURSIVE SelectionSets(_, _, _)
SelectionSets(n, labels, spreads) ==
    IF n <= 0 THEN {<<>>}
    ELSE {<<>>}
         \cup UNION {
             {<<Field(l.name, l.alias, IF c = <<>> THEN <<>> ELSE <<c>>)>> \o rest :
                 rest \in SelectionSets(n - 1 - Size(c), labels, spreads)} :
             l \in labels, c \in SelectionSets(n - 1, labels, spreads)}
         \cup UNION {
             {<<FragmentSpread(f)>> \o rest :
                 rest \in SelectionSets(n - 1, labels, spreads)} :
             f \in spreads}

NonEmpty(sets) == sets \ {<<>>}

PlainLabels == {[name |-> n, alias |-> NoAlias] : n \in Names}
AliasLabels == PlainLabels \cup {[name |-> "a", alias |-> "x"]}

\* the child selections of the fields of selections stored under key
RECURSIVE ChildrenUnder(_, _)
ChildrenUnder(selections, key) ==
    IF selections = <<>> THEN <<>>
    ELSE LET head == selections[1] IN
         (IF resultKeyNameFromField(head) = key /\ head.selectionSet # <<>>
          THEN head.selectionSet[1] ELSE <<>>)
         \o ChildrenUnder(Tail(selections), key)

\* a matcher that some schema admits: the fields stored under one result key
\* have one name, are all leaves or all not, and their children taken
\* together are such a selection set again
RECURSIVE Coherent(_)
Coherent(selections) ==
    \A i \in 1..Len(selections) :
        /\ \A j \in 1..Len(selections) :
               resultKeyNameFromField(selections[i]) = resultKeyNameFromField(selections[j])
                   => /\ selections[i].name = selections[j].name
                      /\ (selections[i].selectionSet = <<>>) = (selections[j].selectionSet = <<>>)
        /\ selections[i].selectionSet # <<>>
               => Coherent(ChildrenUnder(selections, resultKeyNameFromField(selections[i])))

Matchers(n, labels) ==
    {m \in NonEmpty(SelectionSets(n, labels, {})) : Coherent(m)}

Document(definitions) == [kind |-> "Document", definitions |-> definitions]
ApolloInfo(fieldNodes, fragments) ==
    [kind |-> "undefined", fieldNodes |-> fieldNodes, fragments |-> fragments]

\* a document of one operation and no fragment
PlainDocuments(n, labels) ==
    {Document(<<OperationDefinition(sel)>>) :
        sel \in NonEmpty(SelectionSets(n, labels, {}))}

\* a document of one operation and the definitions of some of F and G: a
\* fragment is defined only if it is spread, and F may spread G (so no
\* spread cycle); a spread of a fragment that the document does not define
\* is undefined
FragmentDocuments(n) ==
    UNION { UNION { {Document(<<OperationDefinition(op)>>
                          \o (IF f = <<>> THEN <<>> ELSE <<FragmentDefinition("F", f)>>)
                          \o (IF g = <<>> THEN <<>> ELSE <<FragmentDefinition("G", g)>>)) :
                        g \in IF "G" \in SpreadNames(op) \cup SpreadNames(f)
                              THEN SelectionSets(n - Size(op) - Size(f), PlainLabels, {})
                              ELSE {<<>>}} :
                    f \in IF "F" \in SpreadNames(op)
                          THEN SelectionSets(n - Size(op), PlainLabels, {"G"})
                          ELSE {<<>>}} :
            op \in {sel \in SelectionSets(n, PlainLabels, FragmentNames) :
                        SpreadNames(sel) # {}}}

\* two fields of one name, each with children: a repeated result key in a
\* matcher, two occurrences of a name in a query
Repeated(n) ==
    {<<Field(name, NoAlias, <<c1>>), Field(name, NoAlias, <<c2>>)>> :
        name \in Names,
        c1 \in NonEmpty(SelectionSets(n, PlainLabels, {})),
        c2 \in NonEmpty(SelectionSets(n, PlainLabels, {}))}

\* documents of up to MaxDefinitions definitions: none, one or several
\* operations, fragment definitions before and after them, a name defined twice
SomeDefinitions ==
    {OperationDefinition(<<Field("a", NoAlias, <<>>)>>),
     OperationDefinition(<<FragmentSpread("F")>>),
     FragmentDefinition("F", <<Field("a", NoAlias, <<>>)>>),
     FragmentDefinition("F", <<Field("b", NoAlias, <<>>)>>)}

RECURSIVE Sequences(_, _)
Sequences(set, n) ==
    IF n = 0 THEN {<<>>}
    ELSE {<<>>} \cup {<<x>> \o rest : x \in set, rest \in Sequences(set, n - 1)}

\* the root field nodes a resolver is handed: one field, with or without
\* selections
RootNodes(n) ==
    {Field("a", NoAlias, IF c = <<>> THEN <<>> ELSE <<c>>) :
        c \in SelectionSets(n, PlainLabels, {"F"})}

\* an ApolloInfo without field nodes, or with none, one or two of them
ApolloInfos(n) ==
    {ApolloInfo(nodes, fragments) :
        nodes \in {<<>>, << <<>> >>}
                  \cup {<< <<r>> >> : r \in RootNodes(n)}
                  \cup {<< <<r1, r2>> >> : r1 \in RootNodes(n), r2 \in RootNodes(n)},
        fragments \in {<<>>,
                       [f \in {"F"} |-> FragmentDefinition("F", <<Field("b", NoAlias, <<>>)>>)]}}

InitPlain ==
    /\ matcher \in Matchers(MaxMatcherNodes, PlainLabels)
    /\ queryToCheck \in PlainDocuments(MaxQueryNodes - 1, PlainLabels)

InitAlias ==
    /\ matcher \in Matchers(MaxMatcherNodes - 1, AliasLabels)
    /\ queryToCheck \in PlainDocuments(MaxQueryNodes - 2, AliasLabels)

InitRepeated ==
    /\ matcher \in {m \in Repeated(MaxMatcherNodes - 2) : Coherent(m)}
                    \cup Matchers(MaxMatcherNodes, PlainLabels)
    /\ \E sel \in Repeated(MaxQueryNodes - 3) :
           queryToCheck = Document(<<OperationDefinition(sel)>>)

InitFragments ==
    /\ matcher \in Matchers(MaxMatcherNodes - 1, PlainLabels)
    /\ queryToCheck \in FragmentDocuments(MaxQueryNodes - 1)

InitDefinitions ==
    /\ matcher \in Matchers(MaxMatcherNodes - 2, PlainLabels)
    /\ \E defs \in Sequences(SomeDefinitions, MaxDefinitions) :
           queryToCheck = Document(defs)

InitApollo ==
    /\ matcher \in Matchers(MaxMatcherNodes - 1, PlainLabels)
    /\ queryToCheck \in ApolloInfos(MaxQueryNodes - 3)

Init ==
    /\ \/ InitPlain
       \/ InitAlias
       \/ InitRepeated
       \/ InitFragments
       \/ InitDefinitions
       \/ InitApollo
    /\ pc = "start"
    /\ topLevelOperation = [isArray |-> FALSE, nodes |-> <<>>]
    /\ fragmentDefs = <<>>
    /\ resolved = <<>>
    /\ returned = None
    /\ call = NoCall

\* the fragment maps of F and perhaps G, each of a few selections that may
\* spread F and G: with and without spread cycles
FragmentMaps(n) ==
    LET bodies == NonEmpty(SelectionSets(n, PlainLabels, FragmentNames)) IN
    {[name \in {"F"} |-> FragmentDefinition("F", f)] : f \in bodies}
    \cup {[name \in FragmentNames |->
              IF name = "F" THEN FragmentDefinition("F", f) ELSE FragmentDefinition("G", g)] :
          f \in bodies, g \in bodies}

InitResolution ==
    /\ pc = "resolution"
    /\ matcher = <<>>
    /\ queryToCheck = ApolloInfo(<<>>, <<>>)
    /\ topLevelOperation = [isArray |-> FALSE, nodes |-> <<>>]
    /\ fragmentDefs = <<>>
    /\ resolved = <<>>
    /\ returned = None
    /\ \E fragments \in FragmentMaps(MaxQueryNodes - 2), fieldName \in Names :
           call = [NoCall EXCEPT !.fragments = fragments, !.fragmentName = "F",
                                 !.fieldName = fieldName]

SpecResolution == InitResolution /\ [][NextResolution]_vars

Spec == Init /\ [][Next]_vars

(***************************************************************************)
(* What the claims speak of, stated without the code: fragment expansion,  *)
(* candidates, satisfaction, name paths.                                   *)
(***************************************************************************)
IsDocument(q) == q.kind = "Document"

Operations(q) == SelectSeq(q.definitions, LAMBDA d : d.kind = "OperationDefinition")
FragmentDefinitions(q) == SelectSeq(q.definitions, LAMBDA d : d.kind = "FragmentDefinition")

DefinedNames(q) == {FragmentDefinitions(q)[i].name : i \in 1..Len(FragmentDefinitions(q))}

\* the fragments of a query to check, as a map from name to selections
Definitions(q) ==
    IF IsDocument(q)
    THEN LET defs == FragmentDefinitions(q) IN
         [name \in DefinedNames(q) |->
             defs[CHOOSE i \in 1..Len(defs) : defs[i].name = name].selectionSet[1]]
    ELSE [name \in DOMAIN q.fragments |-> q.fragments[name].selectionSet[1]]

\* the selection sets the query to check starts from
Roots(q) ==
    IF IsDocument(q)
    THEN <<Operations(q)[1].selectionSet[1]>>
    ELSE LET nodes == SelectSeq(q.fieldNodes[1], LAMBDA r : r.selectionSet # <<>>) IN
         [i \in 1..Len(nodes) |-> nodes[i].selectionSet[1]]

\* a query to check that normalises, every spread of which (in an operation,
\* a root node or a fragment) is defined, and defined once
Sound(q) ==
    /\ IF IsDocument(q)
       THEN /\ Operations(q) # <<>>
            /\ \A i \in 1..Len(q.definitions) :
                   SpreadNames(q.definitions[i].selectionSet[1]) \subseteq DefinedNames(q)
            /\ \A i, j \in 1..Len(FragmentDefinitions(q)) :
                   FragmentDefinitions(q)[i].name = FragmentDefinitions(q)[j].name => i = j
       ELSE /\ q.fieldNodes # <<>>
            /\ SpreadNames(q.fieldNodes[1]) \subseteq DOMAIN q.fragments
    /\ \A name \in DOMAIN Definitions(q) :
           SpreadNames(Definitions(q)[name]) \subseteq DOMAIN Definitions(q)

SoundDocument(q) == IsDocument(q) /\ Sound(q)

\* a selection set with its spreads replaced by the fragments' selections,
\* at this level only
RECURSIVE Expand(_, _)
Expand(selections, defs) ==
    IF selections = <<>> THEN <<>>
    ELSE LET head == selections[1] IN
         (IF head.kind = "FragmentSpread"
          THEN Expand(defs[head.name], defs)
          ELSE <<head>>)
         \o Expand(Tail(selections), defs)

\* the same at every depth
RECURSIVE Inline(_, _)
Inline(selections, defs) ==
    LET flat == Expand(selections, defs) IN
    [i \in 1..Len(flat) |->
        IF flat[i].selectionSet = <<>> THEN flat[i]
        ELSE Field(flat[i].name, flat[i].alias, <<Inline(flat[i].selectionSet[1], defs)>>)]

\* the first operation's selection set, spreads inlined
Target(q) == Inline(Roots(q)[1], Definitions(q))

\* Sat(S, n) of a matcher selection set S against the inlined selections of n
RECURSIVE Sat(_, _)
Sat(S, selections) ==
    \A i \in 1..Len(S) :
        \E c \in 1..Len(selections) :
            /\ selections[c].name = S[i].name
            /\ \/ S[i].selectionSet = <<>>
               \/ /\ selections[c].selectionSet # <<>>
                  /\ Sat(S[i].selectionSet[1], selections[c].selectionSet[1])

\* no two fields of one selection set of the matcher share a result key
RECURSIVE DistinctKeys(_)
DistinctKeys(S) ==
    \A i \in 1..Len(S) :
        /\ \A j \in 1..Len(S) :
               resultKeyNameFromField(S[i]) = resultKeyNameFromField(S[j]) => i = j
        /\ S[i].selectionSet # <<>> => DistinctKeys(S[i].selectionSet[1])

Finished == pc \in {"done", "thrown"}

\* C1: on a document whose spreads are all defined, the call returns true
\* exactly when Sat holds of the matcher's root selection set and the first
\* operation (every field of the set has a candidate that is enough for
\* it), and false otherwise.
C1_SatForEveryField ==
    (Finished /\ SoundDocument(queryToCheck))
        => returned = Boolean(Sat(matcher, Target(queryToCheck)))

\* The same for a matcher no selection set of which holds two fields with
\* one result key.
SatForDistinctKeys ==
    (Finished /\ SoundDocument(queryToCheck) /\ DistinctKeys(matcher))
        => returned = Boolean(Sat(matcher, Target(queryToCheck)))

\* the fields of a selection set, spreads left out
Fields(selections) == SelectSeq(selections, LAMBDA s : s.kind = "Field")

\* S is node for node a subset of selections, fields compared by name: each
\* field of S has its own field of selections, of the same name, and is
\* a leaf or a subset of it in turn
RECURSIVE Subset(_, _)
RECURSIVE SubsetFrom(_, _, _, _)
SubsetFrom(S, i, fields, used) ==
    \/ i > Len(S)
    \/ \E c \in (1..Len(fields)) \ used :
           /\ fields[c].name = S[i].name
           /\ \/ S[i].selectionSet = <<>>
              \/ /\ fields[c].selectionSet # <<>>
                 /\ Subset(S[i].selectionSet[1], fields[c].selectionSet[1])
           /\ SubsetFrom(S, i + 1, fields, used \cup {c})

Subset(S, selections) == SubsetFrom(S, 1, Fields(selections), {})

\* C2: a matcher that is at every depth a subset, by name, of the query's
\* selection set matches.
C2_SubsetMatches ==
    (Finished /\ SoundDocument(queryToCheck)
        /\ Subset(matcher, Roots(queryToCheck)[1]))
        => returned = Boolean(TRUE)

\* the paths of field names of a selection set, from its root
RECURSIVE NamePaths(_)
NamePaths(selections) ==
    UNION {{<<selections[i].name>>}
           \cup (IF selections[i].selectionSet = <<>> THEN {}
                 ELSE {<<selections[i].name>> \o path :
                          path \in NamePaths(selections[i].selectionSet[1])}) :
           i \in 1..Len(selections)}

WithOperation(selections, q) ==
    Document(<<OperationDefinition(selections)>> \o FragmentDefinitions(q))

\* the occurrences of a name in the query's root selection set
Occurrences(name, q) ==
    SelectSeq(Expand(Roots(q)[1], Definitions(q)), LAMBDA s : s.name = name)

\* the occurrence is enough for the matcher field: it has selections, and
\* they match the field's children
OccurrenceMatches(field, occurrence, q) ==
    /\ occurrence.selectionSet # <<>>
    /\ doesQueryMatch(field.selectionSet[1],
                      WithOperation(occurrence.selectionSet[1], q)) = Boolean(TRUE)

\* C4: a matcher of one field with children matches exactly when one
\* occurrence of the field's name in the query, taken alone, matches the
\* field's children.
C4_AliasOr ==
    (Finished /\ SoundDocument(queryToCheck)
        /\ Len(matcher) = 1 /\ matcher[1].selectionSet # <<>>)
        => returned = Boolean(
               \E i \in 1..Len(Occurrences(matcher[1].name, queryToCheck)) :
                   OccurrenceMatches(matcher[1],
                       Occurrences(matcher[1].name, queryToCheck)[i], queryToCheck))

\* two occurrences of the name, each matching the matcher with one of the
\* field's two children only: no occurrence is enough, and the call is false
C4_Witness ==
    /\ pc = "done"
    /\ SoundDocument(queryToCheck)
    /\ Len(matcher) = 1 /\ matcher[1].selectionSet # <<>>
    /\ Len(matcher[1].selectionSet[1]) = 2
    /\ LET occurrences == Occurrences(matcher[1].name, queryToCheck)
           OneChild(k) == <<Field(matcher[1].name, NoAlias,
                                  <<<<matcher[1].selectionSet[1][k]>>>>)>>
       IN  /\ Len(occurrences) = 2
           /\ doesQueryMatch(OneChild(1), queryToCheck) = Boolean(TRUE)
           /\ doesQueryMatch(OneChild(2), queryToCheck) = Boolean(TRUE)
    /\ returned = Boolean(FALSE)

\* C5: on a document with spreads, all defined, the call returns what it
\* returns on the document with every spread replaced by its fragment's
\* fields.
C5_FragmentInlining ==
    (Finished /\ SoundDocument(queryToCheck))
        => returned = doesQueryMatch(matcher,
                          Document(<<OperationDefinition(Target(queryToCheck))>>))

\* a match through a fragment that is spread by another fragment
C5_Witness ==
    /\ pc = "done"
    /\ SoundDocument(queryToCheck)
    /\ \E name \in SpreadNames(Roots(queryToCheck)[1]) :
           SpreadNames(Definitions(queryToCheck)[name]) # {}
    /\ ~Sat(matcher, Fields(Roots(queryToCheck)[1]))
    /\ returned = Boolean(TRUE)

\* the answer for one root field node taken alone: the matcher against the
\* node's selections as an operation's
RootMatches(S, node, q) ==
    /\ node.selectionSet # <<>>
    /\ doesQueryMatch(S,
           Document(<<OperationDefinition(node.selectionSet[1])>>
               \o (IF "F" \in DOMAIN q.fragments THEN <<q.fragments["F"]>> ELSE <<>>)))
         = Boolean(TRUE)

\* C6: on an ApolloInfo the call returns true exactly when one of the root
\* field nodes, taken alone, matches the matcher with its selections.
C6_RootOr ==
    (Finished /\ ~IsDocument(queryToCheck) /\ Sound(queryToCheck))
        => returned = Boolean(\E i \in 1..Len(queryToCheck.fieldNodes[1]) :
                                  RootMatches(matcher, queryToCheck.fieldNodes[1][i],
                                              queryToCheck))

\* two root nodes, the second of which alone matches
C6_Witness ==
    /\ pc = "done"
    /\ ~IsDocument(queryToCheck) /\ Sound(queryToCheck)
    /\ Len(queryToCheck.fieldNodes[1]) = 2
    /\ ~RootMatches(matcher, queryToCheck.fieldNodes[1][1], queryToCheck)
    /\ queryToCheck.fieldNodes[1][1].selectionSet # <<>>
    /\ RootMatches(matcher, queryToCheck.fieldNodes[1][2], queryToCheck)
    /\ returned = Boolean(TRUE)

\* the query to check normalises: a document with an operation, an
\* ApolloInfo with field nodes
Normalises(q) ==
    IF IsDocument(q) THEN Operations(q) # <<>> ELSE q.fieldNodes # <<>>

\* some spread, anywhere in the query to check, names no defined fragment
HasUndefinedSpread(q) ==
    \/ \E name \in DOMAIN Definitions(q) :
           ~(SpreadNames(Definitions(q)[name]) \subseteq DOMAIN Definitions(q))
    \/ IF IsDocument(q)
       THEN \E i \in 1..Len(q.definitions) :
                ~(SpreadNames(q.definitions[i].selectionSet[1]) \subseteq DefinedNames(q))
       ELSE ~(SpreadNames(q.fieldNodes[1]) \subseteq DOMAIN q.fragments)

\* C7 as claimed: a query to check with an undefined spread, wherever it
\* sits, makes the call throw.
C7_UndefinedSpreadThrows ==
    (Finished /\ Normalises(queryToCheck) /\ HasUndefinedSpread(queryToCheck))
        => returned = Throw("Referenced non-existent fragment")

\* a spread of the selection set, or of a fragment it spreads, is undefined
RECURSIVE UndefinedAmong(_, _)
UndefinedAmong(selections, defs) ==
    \E i \in 1..Len(selections) :
        /\ selections[i].kind = "FragmentSpread"
        /\ \/ selections[i].name \notin DOMAIN defs
           \/ UndefinedAmong(defs[selections[i].name], defs)

\* matching S against the selection set comes to an undefined spread: one
\* among the selections, or one that matching the children of a field of S
\* with the selections of a candidate comes to
RECURSIVE MeetsUndefined(_, _, _)
MeetsUndefined(S, selections, defs) ==
    \/ UndefinedAmong(selections, defs)
    \/ LET candidates == Expand(selections, defs) IN
       \E i \in 1..Len(S), c \in 1..Len(candidates) :
           /\ S[i].selectionSet # <<>>
           /\ candidates[c].name = S[i].name
           /\ candidates[c].selectionSet # <<>>
           /\ MeetsUndefined(S[i].selectionSet[1], candidates[c].selectionSet[1], defs)

\* C7 amended: the call throws exactly when matching comes to an undefined
\* spread, in the root selections of the operation or of any root field
\* node, in the selections of a candidate for a matcher field with children,
\* or in a fragment spread from there; otherwise it returns a boolean.
C7_MetUndefinedSpreadThrows ==
    (Finished /\ Normalises(queryToCheck))
        => IF \E r \in 1..Len(Roots(queryToCheck)) :
                  MeetsUndefined(matcher, Roots(queryToCheck)[r], Definitions(queryToCheck))
           THEN returned = Throw("Referenced non-existent fragment")
           ELSE returned.t = "boolean"

\* the undefined spread sits in a fragment spread inside a candidate's
\* selections, and is met
C7_Witness ==
    /\ pc = "thrown"
    /\ Normalises(queryToCheck)
    /\ ~UndefinedAmong(Roots(queryToCheck)[1], Definitions(queryToCheck))
    /\ MeetsUndefined(matcher, Roots(queryToCheck)[1], Definitions(queryToCheck))
    /\ returned = Throw("Referenced non-existent fragment")

\* C8: a document without an operation and an ApolloInfo without field
\* nodes make the call throw before anything is resolved; every other query
\* to check gives the first operation of the document and its fragment
\* definitions by name, or the field nodes and fragments of the ApolloInfo.
C8_Normalisation ==
    pc # "start" =>
        IF ~Normalises(queryToCheck)
        THEN /\ pc = "thrown"
             /\ returned = Throw("No query found!")
             /\ resolved = <<>>
             /\ topLevelOperation.nodes = <<>>
        ELSE /\ returned # Throw("No query found!")
             /\ IF IsDocument(queryToCheck)
                THEN /\ topLevelOperation =
                            [isArray |-> FALSE, nodes |-> <<Operations(queryToCheck)[1]>>]
                     /\ DOMAIN fragmentDefs = DefinedNames(queryToCheck)
                     /\ \A name \in DOMAIN fragmentDefs :
                            /\ fragmentDefs[name].name = name
                            /\ \E i \in 1..Len(queryToCheck.definitions) :
                                   queryToCheck.definitions[i] = fragmentDefs[name]
                ELSE /\ topLevelOperation =
                            [isArray |-> TRUE, nodes |-> queryToCheck.fieldNodes[1]]
                     /\ fragmentDefs = queryToCheck.fragments

\* a document of fragment definitions only has made the call throw
C8_Witness ==
    /\ pc = "thrown"
    /\ IsDocument(queryToCheck)
    /\ Len(queryToCheck.definitions) > 1
    /\ Operations(queryToCheck) = <<>>
    /\ returned = Throw("No query found!")

\* the field nodes that growing a query adds: a leaf, an aliased leaf, a
\* field with a child
NewNodes ==
    {Field(l.name, l.alias, <<>>) : l \in AliasLabels}
    \cup {Field(n, NoAlias, <<<<Field(m, NoAlias, <<>>)>>>>) : n \in Names, m \in Names}

\* the selection sets got by adding one field node to the selection set or
\* to a selection set below it
RECURSIVE Grown(_)
Grown(selections) ==
    {SubSeq(selections, 1, k) \o <<n>> \o SubSeq(selections, k + 1, Len(selections)) :
        k \in 0..Len(selections), n \in NewNodes}
    \cup UNION {
        IF selections[i].kind = "Field" /\ selections[i].selectionSet # <<>>
        THEN {[selections EXCEPT ![i].selectionSet = <<c>>] :
                 c \in Grown(selections[i].selectionSet[1])}
        ELSE {} :
        i \in 1..Len(selections)}

\* the documents got by adding one field node to a selection set of q
GrownDocuments(q) ==
    UNION {{Document([q.definitions EXCEPT ![i].selectionSet = <<c>>]) :
                c \in Grown(q.definitions[i].selectionSet[1])} :
           i \in 1..Len(q.definitions)}

\* the matchers got by removing one field, with what is below it, from the
\* matcher or by making a field with children a leaf
RECURSIVE Weakened(_)
Weakened(S) ==
    {SubSeq(S, 1, i - 1) \o SubSeq(S, i + 1, Len(S)) : i \in {j \in 1..Len(S) : Len(S) > 1}}
    \cup UNION {
        IF S[i].selectionSet # <<>>
        THEN {[S EXCEPT ![i].selectionSet = <<>>]}
             \cup {[S EXCEPT ![i].selectionSet = <<c>>] : c \in Weakened(S[i].selectionSet[1])}
        ELSE {} :
        i \in 1..Len(S)}

RECURSIVE Reach(_, _, _)
Reach(names, fragments, k) ==
    IF k = 0 THEN names
    ELSE Reach(names \cup UNION {SpreadNames(fragments[n].selectionSet[1]) :
                                    n \in names \cap DOMAIN fragments},
               fragments, k - 1)

Cyclic(fragments) ==
    \E name \in DOMAIN fragments :
        name \in Reach(SpreadNames(fragments[name].selectionSet[1]), fragments,
                       Cardinality(DOMAIN fragments))

\* C9: resolving a fragment never recurses without bound, on a map with a
\* spread cycle either: the calls in progress are never more than the
\* fragments of the map, which is as deep as calls can nest before one
\* repeats a fragment that is being resolved.
C9_BoundedRecursion ==
    Len(call.frames) <= Cardinality(DOMAIN call.fragments)

\* on a map without a spread cycle the steps end in what the function gives
ResolutionAgrees ==
    (call.result # None /\ ~Cyclic(call.fragments))
        => call.result = getFragmentFieldSelections(call.fragmentName, call.fragments,
                                                    call.fieldName)

\* on a map without a spread cycle the calls nest no deeper than the fragments
AcyclicResolutionBounded ==
    ~Cyclic(call.fragments) => Len(call.frames) <= Cardinality(DOMAIN call.fragments)

====
